---- MODULE Spec2Model ----
(***************************************************************************)
(* Model of the Upstox candle downloader: app.py (adaptive-stop            *)
(* pagination, one Excel sheet per symbol) and app2.py (fixed-horizon      *)
(* pagination, one long-format CSV).  One run of either script is one      *)
(* behaviour: the main thread submits one process_single_stock task per    *)
(* roster symbol to a ThreadPoolExecutor, consumes the futures with        *)
(* as_completed, and writes the output once the pool has drained.          *)
(***************************************************************************)
EXTENDS Integers, Sequences, FiniteSets, TLC

VARIABLES
    policy,       \* "adaptive" (app.py) or "fixed" (app2.py): which script runs
    END_DATE,     \* datetime.now() taken at import, in ticks
    stock_map,    \* the roster: sequence of symbols, in dict insertion order
    market,       \* remote API: the raw candles it holds for each symbol
    flaky,        \* remote API: whether a request for the symbol may fail
    main,         \* position of the main thread
    submitted,    \* number of futures submitted so far
    task,         \* position of each symbol's process_single_stock call
    current_end,  \* process_single_stock local, per symbol
    all_candles,  \* process_single_stock local, per symbol
    future,       \* per symbol: the Future's state and result
    yielded,      \* symbols whose future as_completed has already yielded
    log,          \* the per-symbol messages written through pbar.write
    collected,    \* final_results (app.py) / all_data (app2.py), in insertion order
    sink,         \* the artifacts written to OUTPUT_FILENAME, in order
    summary,      \* the final message printed by the main thread
    windows       \* history: the requests issued per symbol, with the sleeps after each

vars == << policy, END_DATE, stock_map, market, flaky, main, submitted, task,
           current_end, all_candles, future, yielded, log, collected, sink,
           summary, windows >>

----------------------------------------------------------------------------
(* Bounds of the model *)

TicksPerDay == 2     \* resolution of time-of-day: a datetime is a count of ticks

----------------------------------------------------------------------------
(* Configuration constants of the scripts *)

MAX_WORKERS == 4
STOP_YEAR == 2000
GUARD_YEAR == 2010
CHUNK_SIZE_DAYS == 365 * 3

(* datetime: a tick count; ordinal day 1 is 0001-01-01 as in date.toordinal *)
DateTime(ordinal, tod) == ordinal * TicksPerDay + tod
Ordinal(t) == t \div TicksPerDay
timedelta(days) == days * TicksPerDay

START_DATE == DateTime(733773, 0)          \* datetime(2010, 1, 1)

(* datetime.year: the proleptic Gregorian year of an ordinal day *)
YearOfOrdinal(o) ==
    LET n0   == o - 1
        n400 == n0 \div 146097
        r400 == n0 % 146097
        n100 == r400 \div 36524
        r100 == r400 % 36524
        n4   == r100 \div 1461
        r4   == r100 % 1461
        n1   == r4 \div 365
        y    == n400 * 400 + 1 + n100 * 100 + n4 * 4 + n1
    IN  IF n1 = 4 \/ n100 = 4 THEN y - 1 ELSE y

Year(t) == YearOfOrdinal(Ordinal(t))

(* strftime("%Y-%m-%d"): the calendar day, time of day dropped *)
strftime(t) == Ordinal(t)

Max(a, b) == IF a >= b THEN a ELSE b

----------------------------------------------------------------------------
(* Symbols are strings, modelled as sequences of character codes *)

PIPE == 124      \* '|'
COLON == 58      \* ':'
SLASH == 47      \* '/'
SHEET_NAME_LEN == 30

RECURSIVE StrLess(_, _)
StrLess(a, b) ==                       \* Python's str <
    IF b = << >> THEN FALSE
    ELSE IF a = << >> THEN TRUE
    ELSE IF a[1] # b[1] THEN a[1] < b[1]
    ELSE StrLess(Tail(a), Tail(b))

Symbols == { stock_map[i] : i \in 1..Len(stock_map) }

----------------------------------------------------------------------------
(* Remote historical-candle API (black box) *)

TZ == "+05:30"
RawCandle(ordinal, volume) == [date |-> [ordinal |-> ordinal, tz |-> TZ], volume |-> volume]

(* The responses the API can give to one request: the candles it holds for  *)
(* the instrument inside [from_date, to_date], a payload without candles,   *)
(* or an error (network, rate limit), the last two only from a flaky remote *)
get_historical_candle_data1(sym, to_date, from_date) ==
    LET InRange(c) == from_date <= c.date.ordinal /\ c.date.ordinal <= to_date
    IN  { [status |-> "ok", candles |-> SelectSeq(market[sym], InRange)] }
        \cup (IF flaky[sym]
              THEN { [status |-> "error", candles |-> << >>],
                     [status |-> "no_candles", candles |-> << >>] }
              ELSE { })

fetch_chunk_NoExcept(response) ==
    IF response.status = "error"
    THEN [raised |-> TRUE, val |-> << >>]
    ELSE [raised |-> FALSE, val |-> response.candles]

(* fetch_chunk: try/except around the call; [] on any failure *)
fetch_chunk(response) ==
    IF response.status = "error"
    THEN [raised |-> FALSE, val |-> << >>]                  \* except Exception: return []
    ELSE IF response.status = "no_candles"
    THEN [raised |-> FALSE, val |-> << >>]                  \* getattr default / falsy
    ELSE [raised |-> FALSE, val |-> response.candles]       \* candles if candles else []

----------------------------------------------------------------------------
(* Backward pagination: the loop of process_single_stock *)

LoopCond(pol, ce) ==
    IF pol = "adaptive" THEN Year(ce) >= STOP_YEAR ELSE ce >= START_DATE

CurrentStartUnclamped(pol, ce) == ce - timedelta(CHUNK_SIZE_DAYS)

CurrentStart(pol, ce) ==
    IF pol = "adaptive"
    THEN ce - timedelta(CHUNK_SIZE_DAYS)
    ELSE Max(ce - timedelta(CHUNK_SIZE_DAYS), START_DATE)

AdaptiveStepStuck(ce, cs, ac, chunk) ==
    IF chunk # << >>
    THEN [current_end |-> cs, all_candles |-> ac \o chunk, brk |-> FALSE, sleeps |-> 1]
    ELSE IF Year(ce) < GUARD_YEAR
         THEN [current_end |-> ce, all_candles |-> ac, brk |-> TRUE, sleeps |-> 0]
         ELSE [current_end |-> ce, all_candles |-> ac, brk |-> FALSE, sleeps |-> 1]

AdaptiveStepBreakOnEmpty(ce, cs, ac, chunk) ==
    IF chunk # << >>
    THEN [current_end |-> cs, all_candles |-> ac \o chunk, brk |-> FALSE, sleeps |-> 1]
    ELSE [current_end |-> ce, all_candles |-> ac, brk |-> TRUE, sleeps |-> 0]

AdaptiveStepOverwrite(ce, cs, ac, chunk) ==
    IF chunk # << >>
    THEN [current_end |-> cs, all_candles |-> chunk, brk |-> FALSE, sleeps |-> 1]
    ELSE IF Year(ce) < GUARD_YEAR
         THEN [current_end |-> ce, all_candles |-> ac, brk |-> TRUE, sleeps |-> 0]
         ELSE [current_end |-> cs, all_candles |-> ac, brk |-> FALSE, sleeps |-> 1]

(* Body of one iteration of app.py's loop after the fetch *)
AdaptiveStep(ce, cs, ac, chunk) ==
    IF chunk # << >>
    THEN [current_end |-> cs, all_candles |-> ac \o chunk, brk |-> FALSE, sleeps |-> 1]
    ELSE IF Year(ce) < GUARD_YEAR
         THEN [current_end |-> ce, all_candles |-> ac, brk |-> TRUE, sleeps |-> 0]
         ELSE [current_end |-> cs, all_candles |-> ac, brk |-> FALSE, sleeps |-> 1]

FixedStepGap(ce, cs, ac, chunk) ==
    LET ac2 == IF chunk # << >> THEN ac \o chunk ELSE ac
        ce2 == cs - timedelta(2)
    IN  IF cs <= START_DATE
        THEN [current_end |-> ce2, all_candles |-> ac2, brk |-> TRUE, sleeps |-> 0]
        ELSE [current_end |-> ce2, all_candles |-> ac2, brk |-> FALSE, sleeps |-> 1]

FixedStepStopOnEmpty(ce, cs, ac, chunk) ==
    LET ac2 == IF chunk # << >> THEN ac \o chunk ELSE ac
        ce2 == cs - timedelta(1)
    IN  IF cs <= START_DATE \/ chunk = << >>
        THEN [current_end |-> ce2, all_candles |-> ac2, brk |-> TRUE, sleeps |-> 0]
        ELSE [current_end |-> ce2, all_candles |-> ac2, brk |-> FALSE, sleeps |-> 1]

FixedStepNoSleepOnEmpty(ce, cs, ac, chunk) ==
    LET ac2 == IF chunk # << >> THEN ac \o chunk ELSE ac
        ce2 == cs - timedelta(1)
    IN  IF cs <= START_DATE
        THEN [current_end |-> ce2, all_candles |-> ac2, brk |-> TRUE, sleeps |-> 0]
        ELSE [current_end |-> ce2, all_candles |-> ac2, brk |-> FALSE,
              sleeps |-> IF chunk = << >> THEN 0 ELSE 1]

(* Body of one iteration of app2.py's loop after the fetch *)
FixedStep(ce, cs, ac, chunk) ==
    LET ac2 == IF chunk # << >> THEN ac \o chunk ELSE ac
        ce2 == cs - timedelta(1)
    IN  IF cs <= START_DATE
        THEN [current_end |-> ce2, all_candles |-> ac2, brk |-> TRUE, sleeps |-> 0]
        ELSE [current_end |-> ce2, all_candles |-> ac2, brk |-> FALSE, sleeps |-> 1]

LoopStep(pol, ce, cs, ac, chunk) ==
    IF pol = "adaptive" THEN AdaptiveStep(ce, cs, ac, chunk)
    ELSE FixedStep(ce, cs, ac, chunk)

----------------------------------------------------------------------------
(* Per-symbol normalizer: the "Process Data" part of process_single_stock *)

(* pd.to_datetime(...).dt.tz_localize(None): the naive wall-clock datetime *)
to_datetime(date) == DateTime(date.ordinal, 0)

(* astype(int) of the Volume column raises on a null *)
WellFormed(c) == c.volume # << >>
astype_int(volume) == volume[1]

ParseRow(pol, sym, c) ==
    IF pol = "adaptive"
    THEN [Date |-> to_datetime(c.date), Volume |-> astype_int(c.volume)]
    ELSE [Symbol |-> sym, Date |-> to_datetime(c.date), Volume |-> astype_int(c.volume)]

RowLessDescending(by, a, b) ==
    IF by = << "Date" >> THEN a.Date > b.Date
    ELSE \/ StrLess(b.Symbol, a.Symbol)
         \/ a.Symbol = b.Symbol /\ a.Date > b.Date

(* The order of sort_values(by): by = <<"Date">> or <<"Symbol", "Date">> *)
RowLess(by, a, b) ==
    IF by = << "Date" >> THEN a.Date < b.Date
    ELSE \/ StrLess(a.Symbol, b.Symbol)
         \/ a.Symbol = b.Symbol /\ a.Date < b.Date

(* The k-th smallest index of a set of indices *)
KthIndex(S, k) == CHOOSE i \in S : Cardinality({ j \in S : j < i }) = k - 1

(* Position of row i in the stable order: after the rows that are smaller, *)
(* and after the equal rows that precede it                                *)
SortedPosition(rows, by, i) ==
    1 + Cardinality({ j \in 1..Len(rows) :
                        \/ RowLess(by, rows[j], rows[i])
                        \/ ~RowLess(by, rows[i], rows[j]) /\ j < i })

(* The rows in the order of by, equal rows in their input order *)
StableSort(rows, by) ==
    [k \in 1..Len(rows) |->
        rows[CHOOSE i \in 1..Len(rows) : SortedPosition(rows, by, i) = k]]

(* g without its i-th row *)
RemoveAt(g, i) == [k \in 1..(Len(g) - 1) |-> IF k < i THEN g[k] ELSE g[k + 1]]

(* The orders a run of rows with equal keys can come out in: any of its     *)
(* rows first, then the others in any order                                 *)
RECURSIVE Arrangements(_)
Arrangements(g) ==
    IF g = << >> THEN { << >> }
    ELSE UNION { UNION { { << g[i] >> \o rest : rest \in Arrangements(others) } :
                            others \in { RemoveAt(g, i) } } :
                    i \in { j \in 1..Len(g) : \A k \in 1..(j - 1) : g[k] # g[j] } }

(* Length of the run of rows at the head of sorted that have the key of its first row *)
TieRun(sorted, by) ==
    Cardinality({ k \in 1..Len(sorted) :
                    ~RowLess(by, sorted[1], sorted[k]) /\ ~RowLess(by, sorted[k], sorted[1]) })

(* The sorted sequences that keep the order of the keys and put the rows of *)
(* each run of equal keys in any order                                      *)
RECURSIVE TieOrders(_, _)
TieOrders(sorted, by) ==
    IF sorted = << >> THEN { << >> }
    ELSE UNION { { head \o rest : head \in Arrangements(SubSeq(sorted, 1, n)),
                                  rest \in TieOrders(tail, by) } :
                    n \in { TieRun(sorted, by) },
                    tail \in { SubSeq(sorted, m + 1, Len(sorted)) : m \in { TieRun(sorted, by) } } }

(* sort_values(by): the frames it can return. On one column the default     *)
(* kind='quicksort' is not stable, the rows of one key come out in any      *)
(* order; on several columns the sort is the stable lexsort                 *)
sort_values(rows, by) ==
    IF Len(by) = 1
    THEN UNION { TieOrders(sorted, by) : sorted \in { StableSort(rows, by) } }
    ELSE { StableSort(rows, by) }

drop_duplicates_none(rows) == rows

(* drop_duplicates(subset=['Date']): keep the first row of each date *)
drop_duplicates(rows) ==
    LET kept == { i \in 1..Len(rows) : \A j \in 1..(i - 1) : rows[j].Date # rows[i].Date }
    IN  [k \in 1..Cardinality(kept) |-> rows[KthIndex(kept, k)]]

(* df.sort_values('Date').drop_duplicates(subset=['Date']) *)
SortDedupe(rows) ==
    { drop_duplicates(sorted) : sorted \in sort_values(rows, << "Date" >>) }

(* The rows of the DataFrame built from the raw candles, columns converted *)
Parsed(pol, sym, raw) == [i \in 1..Len(raw) |-> ParseRow(pol, sym, raw[i])]

(* The DataFrame pipeline: the frames it can give, or the exception *)
Normalize(pol, sym, raw) ==
    IF \E i \in 1..Len(raw) : ~WellFormed(raw[i])
    THEN { [raised |-> TRUE, val |-> << >>] }
    ELSE UNION { { [raised |-> FALSE, val |-> df] : df \in SortDedupe(parsed) } :
                    parsed \in { Parsed(pol, sym, raw) } }

(* What process_single_stock returns once the loop has ended *)
ProcessData(pol, sym, raw) ==
    IF raw # << >> THEN Normalize(pol, sym, raw)
    ELSE { [raised |-> FALSE, val |-> << >>] }              \* pd.DataFrame()

----------------------------------------------------------------------------
(* Aggregation and sink *)

RECURSIVE Sanitize(_)
Sanitize(sym) ==                       \* replace('|','').replace(':','').replace('/','')
    IF sym = << >> THEN << >>
    ELSE IF sym[1] \in {PIPE, COLON, SLASH} THEN Sanitize(Tail(sym))
    ELSE << sym[1] >> \o Sanitize(Tail(sym))

Truncate(s, n) == IF Len(s) <= n THEN s ELSE SubSeq(s, 1, n)
SafeNameTruncatedFirst(sym) == Sanitize(Truncate(sym, SHEET_NAME_LEN))

(* symbol.replace('|', '').replace(':', '').replace('/', '')[:30] *)
SafeName(sym) == Truncate(Sanitize(sym), SHEET_NAME_LEN)

(* final_results[sym] = df : dict assignment, insertion order kept *)
DictSet(d, k, v) ==
    IF \E i \in 1..Len(d) : d[i].key = k
    THEN [i \in 1..Len(d) |-> IF d[i].key = k THEN [key |-> k, df |-> v] ELSE d[i]]
    ELSE Append(d, [key |-> k, df |-> v])

(* df.to_excel(writer, sheet_name) for every item of final_results: a new    *)
(* sheet for a new name; for a name already used, the cells are written over *)
(* those of the sheet that has it                                            *)
Overlay(d, name) ==
    LET mine == { i \in 1..Len(d) : SafeName(d[i].key) = name }
        rmax == CHOOSE n \in { Len(d[i].df) : i \in mine } :
                    \A i \in mine : Len(d[i].df) <= n
        last(r) == CHOOSE i \in mine :
                    /\ Len(d[i].df) >= r
                    /\ \A j \in mine : Len(d[j].df) >= r => j <= i
    IN  [r \in 1..rmax |-> d[last(r)].df[r]]

WriteSheets(d) ==
    LET first == { i \in 1..Len(d) :
                     \A j \in 1..(i - 1) : SafeName(d[j].key) # SafeName(d[i].key) }
    IN  [k \in 1..Cardinality(first) |->
            [name |-> SafeName(d[KthIndex(first, k)].key),
             rows |-> Overlay(d, SafeName(d[KthIndex(first, k)].key))]]

RECURSIVE Concat(_)
Concat(d) == IF d = << >> THEN << >> ELSE d[1].df \o Concat(Tail(d))

ArtifactUnsorted(pol, d) ==
    IF pol = "adaptive"
    THEN [kind |-> "xlsx", sheets |-> WriteSheets(d), rows |-> << >>]
    ELSE [kind |-> "csv", sheets |-> << >>, rows |-> Concat(d)]

HasDataAlways(d) == TRUE

(* if final_results: / if all_data: *)
HasData(d) == d # << >>

(* The artifact the save block writes *)
Artifact(pol, d) ==
    IF pol = "adaptive"
    THEN [kind |-> "xlsx", sheets |-> WriteSheets(d), rows |-> << >>]
    ELSE CHOOSE a \in
            { [kind |-> "csv", sheets |-> << >>,
               rows |-> sorted] :
                sorted \in UNION { sort_values(final_df, << "Symbol", "Date" >>) :
                                    final_df \in { Concat(d) } } } :
            TRUE

----------------------------------------------------------------------------
(* Initial states *)

NoFuture == [state |-> "pending", df |-> << >>]

(* State after the module body has run up to the ThreadPoolExecutor block *)
InitRun(pol, now, roster, mkt, flk) ==
    /\ policy = pol
    /\ END_DATE = now
    /\ stock_map = roster
    /\ market = mkt
    /\ flaky = flk
    /\ main = IF roster = << >> THEN "collect" ELSE "submit"    \* nothing to submit
    /\ submitted = 0
    /\ task = [s \in Symbols |-> "new"]
    /\ current_end = [s \in Symbols |-> now]
    /\ all_candles = [s \in Symbols |-> << >>]
    /\ future = [s \in Symbols |-> NoFuture]
    /\ yielded = { }
    /\ log = << >>
    /\ collected = << >>
    /\ sink = << >>
    /\ summary = "none"
    /\ windows = [s \in Symbols |-> << >>]

----------------------------------------------------------------------------
(* Worker pool *)

(* The pipelines a worker thread is running *)
Active == { s \in Symbols : task[s] \in {"loop", "fetch", "sleep", "process"} }

WorkerAvailableUnbounded == TRUE

(* A worker thread is free to take the next work item *)
WorkerAvailable == Cardinality(Active) < MAX_WORKERS

(* The work queue is FIFO: the next item is the first submitted, not yet taken *)
QueueHead(s) ==
    \E i \in 1..submitted :
        /\ stock_map[i] = s
        /\ task[s] = "queued"
        /\ \A j \in 1..(i - 1) : task[stock_map[j]] # "queued"

(* executor.submit(process_single_stock, sym, isin) for the next roster entry *)
Submit ==
    /\ main = "submit"
    /\ submitted < Len(stock_map)
    /\ submitted' = submitted + 1
    /\ task' = [task EXCEPT ![stock_map[submitted + 1]] = "queued"]
    /\ main' = IF submitted + 1 = Len(stock_map) THEN "collect" ELSE "submit"
    /\ UNCHANGED << policy, END_DATE, stock_map, market, flaky, current_end,
                    all_candles, future, yielded, log, collected, sink, summary,
                    windows >>

(* A worker takes the task from the queue and enters process_single_stock *)
Start(s) ==
    /\ QueueHead(s)
    /\ WorkerAvailable
    /\ task' = [task EXCEPT ![s] = "loop"]
    /\ current_end' = [current_end EXCEPT ![s] = END_DATE]
    /\ all_candles' = [all_candles EXCEPT ![s] = << >>]
    /\ future' = [future EXCEPT ![s] = [state |-> "running", df |-> << >>]]
    /\ UNCHANGED << policy, END_DATE, stock_map, market, flaky, main, submitted,
                    yielded, log, collected, sink, summary, windows >>

(* The while condition holds: current_start is computed and the request for *)
(* the window is sent; the thread then waits for the remote                 *)
IssueRequest(s) ==
    /\ task[s] = "loop"
    /\ LoopCond(policy, current_end[s])
    /\ LET ce == current_end[s]
           cs == CurrentStart(policy, ce)
       IN  windows' = [windows EXCEPT ![s] =
                         Append(@, [start |-> strftime(cs), end |-> strftime(ce),
                                    status |-> "pending", candles |-> 0, sleeps |-> 0])]
    /\ task' = [task EXCEPT ![s] = "fetch"]
    /\ UNCHANGED << policy, END_DATE, stock_map, market, flaky, main, submitted,
                    current_end, all_candles, future, yielded, log, collected,
                    sink, summary >>

(* The remote answers: fetch_chunk returns, the candles are accumulated and *)
(* current_end moves back, or the loop breaks                               *)
ReceiveChunk(s) ==
    /\ task[s] = "fetch"
    /\ LET ce == current_end[s]
           cs == CurrentStart(policy, ce)
           n  == Len(windows[s])
       IN  \E response \in get_historical_candle_data1(s, windows[s][n].end,
                                                       windows[s][n].start) :
             LET r    == fetch_chunk(response)
                 step == LoopStep(policy, ce, cs, all_candles[s], r.val)
             IN  /\ windows' = [windows EXCEPT ![s][n].status = response.status,
                                               ![s][n].candles = Len(r.val)]
                 /\ IF r.raised
                    THEN /\ task' = [task EXCEPT ![s] = "done"]
                         /\ future' = [future EXCEPT ![s] =
                                          [state |-> "raised", df |-> << >>]]
                         /\ UNCHANGED << current_end, all_candles >>
                    ELSE /\ task' = [task EXCEPT ![s] =
                                        IF step.brk THEN "process"
                                        ELSE IF step.sleeps > 0 THEN "sleep"
                                        ELSE "loop"]
                         /\ current_end' = [current_end EXCEPT ![s] = step.current_end]
                         /\ all_candles' = [all_candles EXCEPT ![s] = step.all_candles]
                         /\ UNCHANGED future
    /\ UNCHANGED << policy, END_DATE, stock_map, market, flaky, main, submitted,
                    yielded, log, collected, sink, summary >>

(* time.sleep(0.5) at the end of the loop body returns *)
Sleep(s) ==
    /\ task[s] = "sleep"
    /\ windows' = [windows EXCEPT ![s][Len(windows[s])].sleeps = @ + 1]
    /\ task' = [task EXCEPT ![s] = "loop"]
    /\ UNCHANGED << policy, END_DATE, stock_map, market, flaky, main, submitted,
                    current_end, all_candles, future, yielded, log, collected,
                    sink, summary >>

(* The while condition is false: leave the loop *)
LoopExit(s) ==
    /\ task[s] = "loop"
    /\ ~LoopCond(policy, current_end[s])
    /\ task' = [task EXCEPT ![s] = "process"]
    /\ UNCHANGED << policy, END_DATE, stock_map, market, flaky, main, submitted,
                    current_end, all_candles, future, yielded, log, collected,
                    sink, summary, windows >>

(* "Process Data": normalize and return, which completes the future *)
Process(s) ==
    /\ task[s] = "process"
    /\ \E r \in ProcessData(policy, s, all_candles[s]) :
          future' = [future EXCEPT ![s] =
                        IF r.raised THEN [state |-> "raised", df |-> << >>]
                        ELSE [state |-> "returned", df |-> r.val]]
    /\ task' = [task EXCEPT ![s] = "done"]
    /\ UNCHANGED << policy, END_DATE, stock_map, market, flaky, main, submitted,
                    current_end, all_candles, yielded, log, collected, sink,
                    summary, windows >>

----------------------------------------------------------------------------
(* Main thread *)

Done(s) == future[s].state \in {"returned", "raised"}

OutcomeNoEmptyCheck(f) ==
    IF f.state = "raised" THEN "failure" ELSE "success"

(* What the body of the as_completed loop reports for a finished future *)
Outcome(f) ==
    IF f.state = "raised" THEN "failure"           \* except Exception
    ELSE IF f.df # << >> THEN "success"            \* not df.empty
    ELSE "empty"

CollectedAll(pol, d, sym, f) ==
    IF f.state = "raised" THEN d
    ELSE IF pol = "adaptive" THEN DictSet(d, sym, f.df)
    ELSE Append(d, [key |-> sym, df |-> f.df])

(* final_results[sym] = df (app.py) or all_data.append(df) (app2.py) *)
Collected(pol, d, sym, f) ==
    IF Outcome(f) # "success" THEN d
    ELSE IF pol = "adaptive" THEN DictSet(d, sym, f.df)
    ELSE Append(d, [key |-> sym, df |-> f.df])

MainAfterReportUncaught(f) == IF f.state = "raised" THEN "crashed" ELSE "collect"

(* try/except around future.result(): the loop goes on whatever the future holds *)
MainAfterReport(f) == "collect"

DrainedEarly == yielded # { }

(* The as_completed loop ends once every future has been yielded *)
Drained == yielded = Symbols

(* as_completed yields a finished future; the loop body reports it *)
Collect(s) ==
    /\ main = "collect"
    /\ s \notin yielded
    /\ Done(s)
    /\ yielded' = yielded \cup {s}
    /\ log' = Append(log, [symbol |-> s, outcome |-> Outcome(future[s])])
    /\ collected' = Collected(policy, collected, s, future[s])
    /\ main' = MainAfterReport(future[s])
    /\ UNCHANGED << policy, END_DATE, stock_map, market, flaky, submitted,
                    task, current_end, all_candles, future, sink, summary, windows >>

(* as_completed is exhausted and the with block shuts the executor down *)
Shutdown ==
    /\ main = "collect"
    /\ Drained
    /\ main' = "save"
    /\ UNCHANGED << policy, END_DATE, stock_map, market, flaky, submitted, task,
                    current_end, all_candles, future, yielded, log, collected,
                    sink, summary, windows >>

(* The save block: write the artifact, or report that nothing was fetched *)
Save ==
    /\ main = "save"
    /\ IF HasData(collected)
       THEN /\ sink' = Append(sink, Artifact(policy, collected))
            /\ summary' = "saved"
       ELSE /\ sink' = sink
            /\ summary' = "no_data"
    /\ main' = "exit"
    /\ UNCHANGED << policy, END_DATE, stock_map, market, flaky, submitted, task,
                    current_end, all_candles, future, yielded, log, collected,
                    windows >>

Next ==
    \/ Submit
    \/ \E s \in Symbols : Start(s)
    \/ \E s \in Symbols : IssueRequest(s)
    \/ \E s \in Symbols : ReceiveChunk(s)
    \/ \E s \in Symbols : Sleep(s)
    \/ \E s \in Symbols : LoopExit(s)
    \/ \E s \in Symbols : Process(s)
    \/ \E s \in Symbols : Collect(s)
    \/ Shutdown
    \/ Save

----------------------------------------------------------------------------
(* Runs of the whole program: a roster one larger than the pool *)

Letter(i) == << 64 + i >>                   \* "A", "B", ...

(* Roster in descending symbol order, so that dict order is not sorted order *)
Roster(n) == [i \in 1..n |-> Letter(n + 1 - i)]

(* What the remote holds for an instrument, by profile *)
ProfileMarket(profile, day) ==
    CASE profile = "none"  -> << >>
      [] profile = "bad"   -> << RawCandle(day, << >>) >>
      [] OTHER             -> << RawCandle(day, << 100 >>) >>

Scenarios ==
    { << "good", "none", "bad", "flaky", "good" >>,
      << "none", "flaky", "none", "none", "none" >>,
      << >> }                                            \* a roster file without rows

(* A clock that leaves one window to fetch *)
ShortNow(pol) ==
    IF pol = "adaptive" THEN DateTime(730651, 1)        \* 2001-06-15
    ELSE DateTime(733783, 1)                            \* 2010-01-11

Init ==
    \E pol \in {"adaptive", "fixed"}, sc \in Scenarios :
        LET roster == Roster(Len(sc))
            now    == ShortNow(pol)
            idx(s) == CHOOSE i \in 1..Len(roster) : roster[i] = s
            syms   == { roster[i] : i \in 1..Len(roster) }
        IN  InitRun(pol, now, roster,
                    [s \in syms |-> ProfileMarket(sc[idx(s)], Ordinal(now) - 1)],
                    [s \in syms |-> sc[idx(s)] = "flaky"])

Spec == Init /\ [][Next]_vars

----------------------------------------------------------------------------
(* Runs of one symbol over a long history: the pagination in detail *)

MaxChunks == 10      \* the remote holds candles up to this many chunk spans before now

(* Candles on every window boundary before now, newest first, from a listing year on *)
RECURSIVE BoundaryCandles(_, _, _)
BoundaryCandles(day, k, since) ==
    IF k > MaxChunks \/ YearOfOrdinal(day) < since THEN << >>
    ELSE << RawCandle(day, << 100 >>) >>
         \o BoundaryCandles(day - CHUNK_SIZE_DAYS, k + 1, since)

PageMarket(profile, now) ==
    CASE profile = "none"      -> << >>
      [] profile = "since2015" -> BoundaryCandles(Ordinal(now), 0, 2015)
      [] profile = "always"    -> BoundaryCandles(Ordinal(now), 0, 1)
      [] OTHER                 -> << RawCandle(Ordinal(now), << >>) >>

PageNows(pol) ==
    IF pol = "adaptive"
    THEN { DateTime(730119, 1),      \* 1999-12-31: before STOP_YEAR
           DateTime(730120, 0),      \* 2000-01-01
           DateTime(730651, 1),      \* 2001-06-15
           DateTime(734868, 1),      \* 2012-12-31
           DateTime(739917, 1) }     \* 2026-10-28
    ELSE { START_DATE - 1,           \* just before the floor
           START_DATE,               \* the floor itself
           START_DATE + 1,
           START_DATE + timedelta(CHUNK_SIZE_DAYS),
           START_DATE + timedelta(CHUNK_SIZE_DAYS) + 1,
           START_DATE + timedelta(CHUNK_SIZE_DAYS + 1),
           START_DATE + timedelta(2 * CHUNK_SIZE_DAYS + 1) + 1,
           DateTime(739917, 0),      \* 2026-10-28
           DateTime(739917, 1) }

InitPage ==
    \E pol \in {"adaptive", "fixed"} :
    \E now \in PageNows(pol), profile \in {"none", "since2015", "always", "bad"},
       flk \in BOOLEAN :
        LET roster == Roster(1)
        IN  InitRun(pol, now, roster,
                    [s \in {roster[1]} |-> PageMarket(profile, now)],
                    [s \in {roster[1]} |-> flk])

SpecPage == InitPage /\ [][Next]_vars

----------------------------------------------------------------------------
(* Runs of two symbols with unordered and duplicated candles: the merge *)

MaxMarket == 2       \* longest candle list the remote holds for one symbol

MergeDays == { 737791, 737792 }      \* 2021-01-01, 2021-01-02

MergeMarkets ==
    { << RawCandle(737792, << >>) >> } \cup
    UNION { [1..n -> { RawCandle(d, << 100 >>) : d \in MergeDays }
                     \cup { RawCandle(737792, << 200 >>) }] : n \in 0..MaxMarket }

MergeNows(pol) ==
    IF pol = "adaptive"
    THEN { DateTime(738887, 1) }     \* 2024-01-02: 2021-01-02 is a window boundary
    ELSE { DateTime(738887, 1),
           START_DATE + timedelta(4 * CHUNK_SIZE_DAYS + 3) + 1 }    \* 2021-12-31

InitMerge ==
    \E pol \in {"adaptive", "fixed"} :
    \E now \in MergeNows(pol), mb \in MergeMarkets,
       ma \in { m \in MergeMarkets : Len(m) <= 1 } :
        LET roster == Roster(2)
        IN  InitRun(pol, now, roster,
                    [s \in {roster[1], roster[2]} |-> IF s = roster[1] THEN mb ELSE ma],
                    [s \in {roster[1], roster[2]} |-> FALSE])

SpecMerge == InitMerge /\ [][Next]_vars

----------------------------------------------------------------------------
(* Runs of two symbols whose names need sanitizing: the sheet names *)

SymPlain == << 65, 66 >>                    \* "AB"
SymSlash == << 65, SLASH, 66 >>             \* "A/B"

(* A symbol longer than a sheet name, with '|', ':' and '/' in it, ending in last *)
LongSymbol(last) ==
    [i \in 1..(SHEET_NAME_LEN + 6) |->
        IF i = 4 THEN PIPE
        ELSE IF i = 8 THEN COLON
        ELSE IF i = 12 THEN SLASH
        ELSE IF i = SHEET_NAME_LEN + 6 THEN last
        ELSE 65 + (i % 26)]

SheetRosters ==
    { << SymSlash, SymPlain >>,
      << LongSymbol(88), SymPlain >>,
      << LongSymbol(88), LongSymbol(89) >>,
      << Letter(2), Letter(1) >> }

(* Two candles for the first symbol of the roster, one for the second *)
SheetMarket(i, listed, day) ==
    IF ~listed THEN << >>
    ELSE IF i = 1 THEN << RawCandle(day - 1, << 101 >>), RawCandle(day, << 101 >>) >>
    ELSE << RawCandle(day, << 102 >>) >>

InitSheet ==
    \E pol \in {"adaptive", "fixed"}, roster \in SheetRosters, listed \in [1..2 -> BOOLEAN] :
        LET now    == ShortNow(pol)
            idx(s) == CHOOSE i \in 1..2 : roster[i] = s
        IN  InitRun(pol, now, roster,
                    [s \in {roster[1], roster[2]} |->
                        SheetMarket(idx(s), listed[idx(s)], Ordinal(now) - 1)],
                    [s \in {roster[1], roster[2]} |-> FALSE])

SpecSheet == InitSheet /\ [][Next]_vars

(* Threads are scheduled and every remote call returns: no enabled step waits forever *)
FairSpec == Spec /\ WF_vars(Next)
FairPage == SpecPage /\ WF_vars(Next)

----------------------------------------------------------------------------
(* Properties *)

Entries(s) == { i \in 1..Len(log) : log[i].symbol = s }

(* The outcome the pipeline of s has, from what it accumulated *)
PipelineOutcome(s) ==
    IF all_candles[s] = << >> THEN "empty"
    ELSE IF \E i \in 1..Len(all_candles[s]) : all_candles[s][i].volume = << >>
    THEN "failure"
    ELSE "success"

(* C1: at most MAX_WORKERS pipelines have started and not yet finished. *)
C1_FanOutBound == Cardinality(Active) <= MAX_WORKERS

C1_Witness ==
    /\ Cardinality(Active) = MAX_WORKERS
    /\ \E s \in Symbols : task[s] = "queued"

(* C2: every symbol is reported at most once, with the outcome its pipeline *)
(* had (success, empty or failure), and eventually every symbol of the      *)
(* roster has been reported exactly once.                                   *)
C2_ExactlyOnce ==
    /\ [](\A s \in Symbols :
            /\ Cardinality(Entries(s)) <= 1
            /\ \A i \in Entries(s) : log[i].outcome = PipelineOutcome(s))
    /\ <>[](\A s \in Symbols : Cardinality(Entries(s)) = 1)

C2_Witness ==
    /\ main = "exit"
    /\ \A o \in {"success", "empty", "failure"} :
          \E i \in 1..Len(log) : log[i].outcome = o
    /\ \E i \in 1..Len(log), j \in 1..Len(log) :
          \E a \in 1..Len(stock_map), b \in 1..Len(stock_map) :
              /\ i < j /\ a > b
              /\ log[i].symbol = stock_map[a] /\ log[j].symbol = stock_map[b]

LoopEnded(s) == task[s] \in {"process", "done"}

Covered(s, day) ==
    \E i \in 1..Len(windows[s]) : windows[s][i].start <= day /\ day <= windows[s][i].end

(* C3: fixed-horizon policy, END_DATE >= START_DATE: once the loop has ended *)
(* every calendar day from the floor to now lies inside a requested window.  *)
C3_FixedCoverage ==
    \A s \in Symbols :
        (policy = "fixed" /\ END_DATE >= START_DATE /\ LoopEnded(s))
        => \A day \in Ordinal(START_DATE)..Ordinal(END_DATE) : Covered(s, day)

C3_Witness ==
    \E s \in Symbols :
        /\ policy = "fixed" /\ LoopEnded(s)
        /\ Ordinal(END_DATE) > Ordinal(START_DATE) + 2 * CHUNK_SIZE_DAYS
        /\ Len(windows[s]) >= 3
        /\ \E i \in 1..Len(windows[s]) : windows[s][i].status = "error"
        /\ \E i \in 1..Len(windows[s]) : windows[s][i].candles > 0

(* Number of CHUNK_SIZE_DAYS steps that take the window end to a year before STOP_YEAR *)
RECURSIVE StepsToStop(_)
StepsToStop(t) ==
    IF Year(t) < STOP_YEAR THEN 0 ELSE 1 + StepsToStop(t - timedelta(CHUNK_SIZE_DAYS))

(* C4: adaptive-stop policy: the number of windows issued never exceeds the  *)
(* number of chunk steps from END_DATE to a year before STOP_YEAR, and the   *)
(* loop eventually ends, whatever the fetcher returns.                       *)
C4_AdaptiveTermination ==
    /\ [](policy = "adaptive" =>
             \A s \in Symbols : Len(windows[s]) <= StepsToStop(END_DATE))
    /\ <>[](policy = "adaptive" => \A s \in Symbols : LoopEnded(s))

(* Data for the years from 2015 on, nothing before: the loop stops on the guard year *)
C4_Witness ==
    \E s \in Symbols :
        /\ policy = "adaptive" /\ LoopEnded(s) /\ ~flaky[s]
        /\ Year(END_DATE) > 2015
        /\ \E i \in 1..Len(windows[s]) : windows[s][i].candles > 0
        /\ \A i \in 1..Len(windows[s]) :
              windows[s][i].candles > 0 <=> YearOfOrdinal(windows[s][i].end) >= 2015
        /\ Len(windows[s]) < StepsToStop(END_DATE)

Last(q) == q[Len(q)]

(* C5: a window whose remote call fails or answers without candles raises    *)
(* nothing: the accumulated candles are kept and the loop moves on exactly   *)
(* as it does after an empty window.                                         *)
C5_FailSoft ==
    [][\A s \in Symbols :
          (/\ task[s] = "fetch"
           /\ Last(windows'[s]).status \in {"error", "no_candles"})
          => LET ce    == current_end[s]
                 cs    == CurrentStart(policy, ce)
                 empty == LoopStep(policy, ce, cs, all_candles[s], << >>)
             IN  /\ future'[s].state = "running"
                 /\ all_candles'[s] = all_candles[s]
                 /\ current_end'[s] = empty.current_end
                 /\ task'[s] = IF empty.brk THEN "process" ELSE "sleep"]_vars

(* A failed window between two windows that returned data, all of it kept *)
C5_Witness ==
    \E s \in Symbols :
        /\ future[s].state = "returned"
        /\ \E i, j, k \in 1..Len(windows[s]) :
              /\ i < j /\ j < k
              /\ windows[s][i].candles > 0
              /\ windows[s][j].status = "error"
              /\ windows[s][k].candles > 0
              /\ Len(all_candles[s]) >= windows[s][i].candles + windows[s][k].candles

Dates(df) == { df[i].Date : i \in 1..Len(df) }

(* C6: the normalized result of a non-empty raw batch has strictly increasing *)
(* dates (sorted, no date twice) and exactly the dates of the raw batch.      *)
C6_NormalizerShape ==
    \A s \in Symbols :
        (future[s].state = "returned" /\ all_candles[s] # << >>)
        => LET df  == future[s].df
               raw == all_candles[s]
           IN  /\ \A i \in 1..Len(df), j \in 1..Len(df) : i < j => df[i].Date < df[j].Date
               /\ Dates(df) = { to_datetime(raw[i].date) : i \in 1..Len(raw) }

(* A boundary candle fetched by two adjacent windows, in a batch that is not sorted *)
C6_Witness ==
    \E s \in Symbols :
        /\ future[s].state = "returned"
        /\ policy = "adaptive"
        /\ Len(all_candles[s]) > Len(market[s])
        /\ \E i \in 1..Len(all_candles[s]), j \in 1..Len(all_candles[s]) :
              i < j /\ all_candles[s][i].date.ordinal > all_candles[s][j].date.ordinal
        /\ Len(future[s].df) = 2

(* C7: the rows of the long-format table are the rows of all collected       *)
(* results, in ascending (symbol, date) order.                               *)
C7_LongFormatSorted ==
    \A a \in 1..Len(sink) :
        sink[a].kind = "csv"
        => LET rows == sink[a].rows
               all  == Concat(collected)
           IN  /\ \A i \in 1..Len(rows), j \in 1..Len(rows) :
                     i < j => \/ StrLess(rows[i].Symbol, rows[j].Symbol)
                              \/ /\ rows[i].Symbol = rows[j].Symbol
                                 /\ rows[i].Date < rows[j].Date
               /\ Len(rows) = Len(all)
               /\ \A i \in 1..Len(all) : \E j \in 1..Len(rows) : rows[j] = all[i]

(* B (2021-01-02, 2021-01-01) collected before A (2021-01-01) *)
C7_Witness ==
    /\ policy = "fixed"
    /\ Len(collected) = 2
    /\ collected[1].key = Letter(2) /\ collected[2].key = Letter(1)
    /\ all_candles[Letter(2)] = << RawCandle(737792, << 100 >>), RawCandle(737791, << 100 >>) >>
    /\ Len(sink) = 1
    /\ sink[1].rows = << [Symbol |-> Letter(1), Date |-> DateTime(737791, 0), Volume |-> 100],
                         [Symbol |-> Letter(2), Date |-> DateTime(737791, 0), Volume |-> 100],
                         [Symbol |-> Letter(2), Date |-> DateTime(737792, 0), Volume |-> 100] >>

NoCandlesFetched ==
    \A s \in Symbols : \A i \in 1..Len(windows[s]) : windows[s][i].candles = 0

(* C8: while no fetch of any symbol has returned a candle nothing is written, *)
(* and a run that ends so reports the nothing-to-save outcome.                *)
C8_EmptyRun ==
    NoCandlesFetched => /\ sink = << >>
                        /\ main = "exit" => summary = "no_data"

C8_Witness ==
    /\ main = "exit"
    /\ stock_map # << >>
    /\ NoCandlesFetched
    /\ \A s \in Symbols : Len(windows[s]) >= 1
    /\ Len(log) = Len(stock_map)
    /\ summary = "no_data"

(* C9: the sink is written at most once, and only when every pipeline has   *)
(* completed and been reported.                                             *)
C9_WriteOnceAfterDrain ==
    /\ Len(sink) <= 1
    /\ sink # << >> => /\ main = "exit"
                       /\ \A s \in Symbols : Done(s) /\ Cardinality(Entries(s)) = 1

C9_Witness ==
    /\ Len(sink) = 1
    /\ \E i \in 1..Len(log) : log[i].outcome = "failure"

FailureReported == \E i \in 1..Len(log) : log[i].outcome = "failure"

(* C10: once a failure has been reported the run still reaches its end, and  *)
(* at the end every symbol has run to completion and been reported, and the  *)
(* collected results hold, for exactly the symbols whose pipeline succeeded, *)
(* the result of that pipeline.                                              *)
C10_FailureIsolation ==
    /\ FailureReported ~> main = "exit"
    /\ [](main = "exit" =>
            \A s \in Symbols :
               /\ task[s] = "done"
               /\ Cardinality(Entries(s)) = 1
               /\ Cardinality({ i \in 1..Len(collected) : collected[i].key = s })
                     = IF PipelineOutcome(s) = "success" THEN 1 ELSE 0
               /\ \A i \in 1..Len(collected) :
                     collected[i].key = s
                     => /\ collected[i].df = future[s].df
                        /\ [raised |-> FALSE, val |-> collected[i].df]
                              \in ProcessData(policy, s, all_candles[s]))

(* A failure is reported while one symbol is in flight and another still queued *)
C10_Witness ==
    /\ FailureReported
    /\ \E s \in Symbols : task[s] = "queued"
    /\ \E s \in Symbols : task[s] = "loop" /\ PipelineOutcome(s) = "empty" /\ market[s] # << >>

----------------------------------------------------------------------------
(* C11 *)

(* The symbols of an artifact: the keys behind its sheets, the Symbol column *)
ArtifactSymbols(a) ==
    IF a.kind = "xlsx"
    THEN { s \in Symbols : \E k \in 1..Len(a.sheets) : a.sheets[k].name = SafeName(s) }
    ELSE { a.rows[r].Symbol : r \in 1..Len(a.rows) }

YieldedCandles(s) == all_candles[s] # << >>

(* C11: in every reachable state the symbols held in the collected results, *)
(* and the symbols of every artifact written, are symbols of the roster     *)
(* whose pipeline yielded at least one candle; a symbol whose pipeline      *)
(* yielded zero candles is in neither.                                      *)
C11_ArtifactSymbols ==
    /\ \A i \in 1..Len(collected) :
        /\ collected[i].key \in Symbols
        /\ YieldedCandles(collected[i].key)
    /\ \A a \in 1..Len(sink) :
        /\ \A k \in 1..Len(sink[a].sheets) :
            \E i \in 1..Len(collected) : sink[a].sheets[k].name = SafeName(collected[i].key)
        /\ \A r \in 1..Len(sink[a].rows) :
            /\ sink[a].rows[r].Symbol \in Symbols
            /\ YieldedCandles(sink[a].rows[r].Symbol)
        /\ \A s \in Symbols :
            ~YieldedCandles(s) /\ (\A t \in Symbols \ {s} : SafeName(t) # SafeName(s))
                => s \notin ArtifactSymbols(sink[a])

C11_Witness ==
    /\ sink # << >>
    /\ \E s \in Symbols : ~YieldedCandles(s) /\ s \in yielded /\ PipelineOutcome(s) = "empty"
    /\ \E s \in Symbols : YieldedCandles(s) /\ s \in ArtifactSymbols(sink[1])

----------------------------------------------------------------------------
(* C12 *)

(* The same stored results in every order the futures can complete in *)
CompletionOrders(d) ==
    { [i \in 1..Len(d) |-> d[f[i]]] :
        f \in { g \in [1..Len(d) -> 1..Len(d)] :
                  \A i, j \in 1..Len(d) : g[i] = g[j] => i = j } }

(* C12: the artifact written is the one every other completion order of the *)
(* same per-symbol results writes, entry for entry in the same order, in    *)
(* the multi-table form of app.py and in the long-format form of app2.py.   *)
C12_OrderIndependent ==
    \A a \in 1..Len(sink) :
        \A d \in CompletionOrders(collected) : Artifact(policy, d) = sink[a]

----------------------------------------------------------------------------
(* C13 *)

StrictlyAscending(rows) ==
    \A i \in 1..(Len(rows) - 1) : rows[i].Date < rows[i + 1].Date

(* The raw batches at hand: what the remote holds for s, what s accumulated *)
RawBatches(s) ==
    { raw \in { market[s], all_candles[s] } : \A i \in 1..Len(raw) : WellFormed(raw[i]) }

(* C13: the normalization step (sort by date, drop duplicate dates) leaves  *)
(* a sequence that is sorted by date and free of duplicate dates as it is,  *)
(* so for every raw batch x normalize(normalize(x)) = normalize(x).         *)
C13_NormalizerIdempotent ==
    \A s \in Symbols :
        /\ \A raw \in RawBatches(s) :
            LET x == Parsed(policy, s, raw)
            IN  /\ StrictlyAscending(x) => SortDedupe(x) = { x }
                /\ \A y \in SortDedupe(x) : SortDedupe(y) = { y }
        /\ future[s].state = "returned" => SortDedupe(future[s].df) = { future[s].df }

C13_Witness ==
    \E s, t \in Symbols :
        /\ future[s].state = "returned"
        /\ Len(future[s].df) = 2
        /\ Len(all_candles[s]) > 2
        /\ ~StrictlyAscending(Parsed(policy, s, all_candles[s]))
        /\ Len(market[t]) = 2
        /\ market[t] \in RawBatches(t)
        /\ StrictlyAscending(Parsed(policy, t, market[t]))

----------------------------------------------------------------------------
(* C14 *)

Unsafe == { PIPE, COLON, SLASH }

(* The first 30 characters of the symbol with '|', ':' and '/' removed *)
ExpectedSheetName(sym) ==
    LET kept == SelectSeq(sym, LAMBDA c : c \notin Unsafe)
    IN  [i \in 1..(IF Len(kept) < SHEET_NAME_LEN THEN Len(kept) ELSE SHEET_NAME_LEN) |-> kept[i]]

(* C14: for every symbol, the sheet name app.py uses contains none of '|',  *)
(* ':' and '/', is at most 30 characters long, and is the first 30          *)
(* characters of the symbol with those three characters removed; the sheets *)
(* of the workbook carry these names.                                       *)
C14_SheetNameSanitized ==
    /\ \A s \in Symbols :
        /\ \A i \in 1..Len(SafeName(s)) : SafeName(s)[i] \notin Unsafe
        /\ Len(SafeName(s)) <= SHEET_NAME_LEN
        /\ SafeName(s) = ExpectedSheetName(s)
    /\ \A a \in 1..Len(sink) :
        policy = "adaptive" =>
            { sink[a].sheets[k].name : k \in 1..Len(sink[a].sheets) }
                = { ExpectedSheetName(collected[i].key) : i \in 1..Len(collected) }

C14_Witness ==
    /\ policy = "adaptive"
    /\ sink # << >>
    /\ \E i \in 1..Len(collected) :
        /\ Len(collected[i].key) > SHEET_NAME_LEN
        /\ Unsafe \subseteq { collected[i].key[j] : j \in 1..Len(collected[i].key) }
        /\ \E k \in 1..Len(sink[1].sheets) :
            /\ sink[1].sheets[k].name = ExpectedSheetName(collected[i].key)
            /\ Len(sink[1].sheets[k].name) = SHEET_NAME_LEN

----------------------------------------------------------------------------
(* C15 *)

(* The loop goes on to request a window whose end is the day given: after *)
(* the pacing sleep the while condition holds                             *)
RequestsNext(s, day) ==
    /\ task[s] \in {"sleep", "loop"}
    /\ LoopCond(policy, current_end[s])
    /\ strftime(current_end[s]) = day

(* C15: adaptive-stop policy: a window that returned no data ends the       *)
(* pagination exactly when its end year is before the guard year (2010);    *)
(* after an empty window whose end year is 2010 or later the next window is *)
(* requested, and its end is the empty window's start.                      *)
C15_EmptyWindowRule ==
    policy = "adaptive" =>
        \A s \in Symbols : \A i \in 1..Len(windows[s]) :
            LET w == windows[s][i]
            IN  (w.status # "pending" /\ w.candles = 0) =>
                    IF YearOfOrdinal(w.end) < GUARD_YEAR
                    THEN i = Len(windows[s]) /\ LoopEnded(s)
                    ELSE IF i < Len(windows[s])
                         THEN windows[s][i + 1].end = w.start
                         ELSE RequestsNext(s, w.start)

C15_Witness ==
    /\ policy = "adaptive"
    /\ \E s \in Symbols :
        /\ Len(windows[s]) >= 3
        /\ windows[s][1].candles = 0
        /\ YearOfOrdinal(windows[s][1].end) >= GUARD_YEAR
        /\ windows[s][2].end = windows[s][1].start
        /\ Last(windows[s]).candles = 0
        /\ YearOfOrdinal(Last(windows[s]).end) < GUARD_YEAR
        /\ YearOfOrdinal(Last(windows[s]).end) >= STOP_YEAR
        /\ LoopEnded(s)

----------------------------------------------------------------------------
(* C16 *)

(* The candles of the windows 1..n of s that returned data, in fetch order *)
RECURSIVE Fetched(_, _)
Fetched(s, n) ==
    IF n = 0 THEN << >>
    ELSE LET w == windows[s][n]
             InWindow(c) == w.start <= c.date.ordinal /\ c.date.ordinal <= w.end
         IN  Fetched(s, n - 1)
             \o (IF w.candles > 0 THEN SelectSeq(market[s], InWindow) ELSE << >>)

(* C16 as stated: adaptive-stop policy: the candles of every window that    *)
(* returned data are appended to the accumulated collection, and after such *)
(* a window a further window is requested whose end is that window's start: *)
(* a window that returned data is never the last window of the pagination.  *)
C16_DataWindowNeverLast ==
    policy = "adaptive" =>
        \A s \in Symbols :
            /\ all_candles[s] = Fetched(s, Len(windows[s]))
            /\ \A i \in 1..Len(windows[s]) :
                LET w == windows[s][i]
                IN  w.candles > 0 =>
                        IF i < Len(windows[s])
                        THEN windows[s][i + 1].end = w.start
                        ELSE RequestsNext(s, w.start)

(* C16 amended: adaptive-stop policy: the candles of every window that      *)
(* returned data are appended to the accumulated collection and the loop    *)
(* moves to that window's start; a further window, ending at that start, is *)
(* requested exactly when the year of the start is STOP_YEAR (2000) or      *)
(* later; otherwise the window that returned data is the last one.          *)
C16_DataWindowRule ==
    policy = "adaptive" =>
        \A s \in Symbols :
            /\ all_candles[s] = Fetched(s, Len(windows[s]))
            /\ \A i \in 1..Len(windows[s]) :
                LET w == windows[s][i]
                IN  w.candles > 0 =>
                        IF i < Len(windows[s])
                        THEN /\ windows[s][i + 1].end = w.start
                             /\ YearOfOrdinal(w.start) >= STOP_YEAR
                        ELSE IF YearOfOrdinal(w.start) >= STOP_YEAR
                             THEN RequestsNext(s, w.start)
                             ELSE /\ strftime(current_end[s]) = w.start
                                  /\ ~LoopCond(policy, current_end[s])
                                  /\ task[s] \in {"sleep", "loop", "process", "done"}

C16_Witness ==
    /\ policy = "adaptive"
    /\ \E s \in Symbols :
        /\ LoopEnded(s)
        /\ Len(windows[s]) >= 2
        /\ windows[s][1].candles > 0
        /\ windows[s][2].end = windows[s][1].start
        /\ Last(windows[s]).candles > 0
        /\ YearOfOrdinal(Last(windows[s]).start) < STOP_YEAR
        /\ Len(all_candles[s]) > Last(windows[s]).candles

----------------------------------------------------------------------------
(* C17 *)

(* The i-th window of the fixed-horizon policy, from END_DATE alone *)
ExpectedEnd(i) == END_DATE - timedelta((i - 1) * (CHUNK_SIZE_DAYS + 1))
ExpectedStart(i) == Max(ExpectedEnd(i) - timedelta(CHUNK_SIZE_DAYS), START_DATE)

(* The number of windows down to the floor, from END_DATE alone *)
ExpectedCount ==
    IF END_DATE < START_DATE THEN 0
    ELSE CHOOSE n \in 1..((END_DATE - START_DATE) \div timedelta(CHUNK_SIZE_DAYS + 1) + 2) :
            /\ ExpectedStart(n) <= START_DATE \/ ExpectedEnd(n + 1) < START_DATE
            /\ \A m \in 1..(n - 1) :
                ExpectedStart(m) > START_DATE /\ ExpectedEnd(m + 1) >= START_DATE

(* C17: fixed-horizon policy: the windows issued for a symbol are those     *)
(* determined by END_DATE alone, whatever the fetcher returned (data,       *)
(* nothing or a failure) in any window; the loop does not end before the    *)
(* start of a window has reached the floor date START_DATE.                 *)
C17_FixedWindowsIgnoreResults ==
    policy = "fixed" =>
        \A s \in Symbols :
            /\ Len(windows[s]) <= ExpectedCount
            /\ \A i \in 1..Len(windows[s]) :
                /\ windows[s][i].start = strftime(ExpectedStart(i))
                /\ windows[s][i].end = strftime(ExpectedEnd(i))
            /\ LoopEnded(s) =>
                /\ Len(windows[s]) = ExpectedCount
                /\ END_DATE >= START_DATE => Last(windows[s]).start = strftime(START_DATE)
            /\ task[s] \in {"sleep", "loop"} /\ Len(windows[s]) < ExpectedCount
                => LoopCond(policy, current_end[s])

C17_Witness ==
    /\ policy = "fixed"
    /\ \E s \in Symbols :
        /\ LoopEnded(s)
        /\ Len(windows[s]) >= 4
        /\ \E i, j, k \in 1..(Len(windows[s]) - 1) :
            /\ windows[s][i].candles > 0
            /\ windows[s][j].candles = 0 /\ windows[s][j].status = "ok"
            /\ windows[s][k].status = "error"

----------------------------------------------------------------------------
(* C18 *)

(* C18: in both policies, every window fetch of a symbol that is followed   *)
(* by another window fetch is separated from it by exactly one pacing       *)
(* sleep, whether it returned data, returned nothing or failed.             *)
C18_Pacing ==
    \A s \in Symbols :
        \A i \in 1..(Len(windows[s]) - 1) : windows[s][i].sleeps = 1

C18_Witness ==
    \E s \in Symbols :
        \E i, j, k \in 1..(Len(windows[s]) - 1) :
            /\ windows[s][i].candles > 0 /\ windows[s][i].sleeps = 1
            /\ windows[s][j].candles = 0 /\ windows[s][j].status = "no_candles"
            /\ windows[s][j].sleeps = 1
            /\ windows[s][k].status = "error" /\ windows[s][k].sleeps = 1

----------------------------------------------------------------------------
(* C19 *)

Successes == { s \in Symbols : \E i \in 1..Len(log) :
                                 log[i].symbol = s /\ log[i].outcome = "success" }

(* C19: in the workbook app.py writes, every symbol reported as success has *)
(* its own sheet holding exactly its normalized records; no two symbols are *)
(* written under the same sheet name, so there are as many sheets as        *)
(* symbols reported as success.                                             *)
C19_NoResultLost ==
    policy = "adaptive" =>
        \A a \in 1..Len(sink) :
            /\ Len(sink[a].sheets) = Cardinality(Successes)
            /\ \A s \in Successes :
                /\ \E k \in 1..Len(sink[a].sheets) :
                    /\ sink[a].sheets[k].name = SafeName(s)
                    /\ sink[a].sheets[k].rows = future[s].df
                /\ \A t \in Successes \ {s} : SafeName(t) # SafeName(s)

----------------------------------------------------------------------------
(* C20 *)

(* The calendar days a window asks for *)
WindowDays(w) == w.start .. w.end

(* C20: fixed-horizon policy: every window issued has START_DATE <= start   *)
(* <= end, spans at most CHUNK_SIZE_DAYS days, and ends exactly one day     *)
(* before the start of the window issued just before it; the windows of one *)
(* symbol are pairwise disjoint: no calendar day is requested twice.        *)
C20_FixedWindowShape ==
    policy = "fixed" =>
        \A s \in Symbols :
            /\ \A i \in 1..Len(windows[s]) :
                LET w == windows[s][i]
                IN  /\ strftime(START_DATE) <= w.start
                    /\ w.start <= w.end
                    /\ w.end - w.start <= CHUNK_SIZE_DAYS
                    /\ i > 1 => w.end = windows[s][i - 1].start - 1
            /\ \A i, j \in 1..Len(windows[s]) :
                i # j => WindowDays(windows[s][i]) \cap WindowDays(windows[s][j]) = { }

C20_Witness ==
    /\ policy = "fixed"
    /\ \E s \in Symbols :
        /\ LoopEnded(s)
        /\ Len(windows[s]) >= 3
        /\ windows[s][1].end - windows[s][1].start = CHUNK_SIZE_DAYS
        /\ Last(windows[s]).start = strftime(START_DATE)
        /\ Last(windows[s]).end - Last(windows[s]).start < CHUNK_SIZE_DAYS
        /\ Last(windows[s]).end = windows[s][Len(windows[s]) - 1].start - 1

====
